---- MODULE Spec2Model ----
(***************************************************************************)
(* Model of the nushell plugin `nu_plugin_qr` (src/src/main.rs).           *)
(*                                                                         *)
(* The plugin object `Qr` is a unit struct; `Qr::run` dispatches on the    *)
(* command name to the decode pipeline ("from qr"), the encode pipeline    *)
(* ("to qr") or the unknown-command error.  One action models one whole    *)
(* invocation of `run`.  The state records the last invocation (`call`),   *)
(* the value or error it returned (`result`), the list `v` of decoded      *)
(* payloads at the point of return (`agg`) and the calls the handler made  *)
(* to the external primitives, in program order (`events`).                *)
(*                                                                         *)
(* External crates (image, quircs, fast_qr, nu_protocol) are modelled at   *)
(* their interface: an image buffer is described by whether the codec can  *)
(* load it and by the candidates the finder yields on it; the generator    *)
(* accepts a payload iff it fits the capacity; a rendered PNG carries the  *)
(* symbol it was rendered from and the builder settings used.              *)
(***************************************************************************)
EXTENDS Integers, Sequences, FiniteSets, TLC

VARIABLES call, result, agg, events

vars == <<call, result, agg, events>>

(***************************************************************************)
(* Bounds of the model.                                                    *)
(***************************************************************************)
\* largest number of candidates the finder yields on one image
MaxCands == 3
\* capacity of the symbol generator in bytes, scaled down
QrCapacity == 2

(***************************************************************************)
(* Bytes, payloads and UTF-8.                                              *)
(***************************************************************************)
\* the separator of string_buf.join("\n"), as a byte
NEWLINE == 10

IsCont(b) == b >= 128 /\ b <= 191

\* String::from_utf8 succeeds exactly on well-formed UTF-8 (and then keeps
\* the bytes unchanged); this is the well-formedness check, byte by byte.
RECURSIVE ValidUtf8From(_, _)
ValidUtf8From(b, i) ==
    IF i > Len(b) THEN TRUE
    ELSE LET c == b[i]
             has1 == i + 1 <= Len(b)
             has2 == i + 2 <= Len(b)
             has3 == i + 3 <= Len(b)
         IN  IF c <= 127 THEN ValidUtf8From(b, i + 1)
             ELSE IF c >= 194 /\ c <= 223
               THEN has1 /\ IsCont(b[i + 1]) /\ ValidUtf8From(b, i + 2)
             ELSE IF c = 224
               THEN has2 /\ b[i + 1] >= 160 /\ b[i + 1] <= 191
                         /\ IsCont(b[i + 2]) /\ ValidUtf8From(b, i + 3)
             ELSE IF c = 237
               THEN has2 /\ b[i + 1] >= 128 /\ b[i + 1] <= 159
                         /\ IsCont(b[i + 2]) /\ ValidUtf8From(b, i + 3)
             ELSE IF c >= 225 /\ c <= 239
               THEN has2 /\ IsCont(b[i + 1]) /\ IsCont(b[i + 2])
                         /\ ValidUtf8From(b, i + 3)
             ELSE IF c = 240
               THEN has3 /\ b[i + 1] >= 144 /\ b[i + 1] <= 191
                         /\ IsCont(b[i + 2]) /\ IsCont(b[i + 3])
                         /\ ValidUtf8From(b, i + 4)
             ELSE IF c >= 241 /\ c <= 243
               THEN has3 /\ IsCont(b[i + 1]) /\ IsCont(b[i + 2])
                         /\ IsCont(b[i + 3]) /\ ValidUtf8From(b, i + 4)
             ELSE IF c = 244
               THEN has3 /\ b[i + 1] >= 128 /\ b[i + 1] <= 143
                         /\ IsCont(b[i + 2]) /\ IsCont(b[i + 3])
                         /\ ValidUtf8From(b, i + 4)
             ELSE FALSE

FromUtf8Ok(data) == ValidUtf8From(data, 1)


(***************************************************************************)
(* Values exchanged with the host.  A buffer is the content of a           *)
(* Value::Binary or Value::String: `data` are its bytes when it is a       *)
(* payload, `img` is <<>> when the image codec cannot load it and          *)
(* <<image>> when it can, an image being described by the candidates the   *)
(* finder yields on it (`symbols`) and, for an image rendered by "to qr",  *)
(* by the builder settings it was rendered with (`builder`).               *)
(***************************************************************************)
Bytes(data) == [data |-> data, img |-> <<>>]

ImageBuffer(symbols, builder) ==
    [data |-> <<>>, img |-> <<[symbols |-> symbols, builder |-> builder]>>]

StringValue(val) == [kind |-> "String", val |-> Bytes(val), label |-> "", msg |-> ""]

BinaryValue(val) == [kind |-> "Binary", val |-> val, label |-> "", msg |-> ""]

IntValue == [kind |-> "Int", val |-> Bytes(<<>>), label |-> "", msg |-> ""]

Nothing == [kind |-> "Nothing", val |-> Bytes(<<>>), label |-> "", msg |-> ""]

LabeledError(label, msg) ==
    [kind |-> "Error", val |-> Bytes(<<>>), label |-> label, msg |-> msg]

\* Value::as_binary: a binary or a string converts, anything else is an error
AsBinaryOk(input) == input.kind \in {"Binary", "String"}

CantConvert == LabeledError("Can't convert to binary", "")

Ev(op, idx) == [op |-> op, idx |-> idx]

Outcome(res, v, ev) == [result |-> res, agg |-> v, events |-> ev]

(***************************************************************************)
(* "from qr": the decode pipeline.                                         *)
(***************************************************************************)
\* a candidate the finder yields: identification failed, or it succeeded and
\* decoding failed, or both succeeded and gave `payload`
Candidate(ident, dec, payload) == [ident |-> ident, dec |-> dec, payload |-> payload]

\* Step as it would be if the identification arm returned the error
\* without looking at ignore_error
StepIdentAborts(acc, s, i, ignore_error) ==
    LET ev1 == Append(acc.ev, Ev("identify", i))
    IN  IF s.ident
        THEN LET ev2 == Append(ev1, Ev("decode", i))
             IN  IF s.dec
                 THEN [err |-> <<>>, v |-> Append(acc.v, s.payload), ev |-> ev2]
                 ELSE IF ~ignore_error
                 THEN [err |-> <<LabeledError("input contains incorrect data",
                                   "identified data can not be decoded")>>,
                       v |-> acc.v, ev |-> ev2]
                 ELSE [err |-> <<>>, v |-> acc.v,
                       ev |-> Append(ev2, Ev("eprintln", i))]
        ELSE [err |-> <<LabeledError("input contains incorrect data",
                          "part of data can not be identified")>>,
              v |-> acc.v, ev |-> ev1]

\* Step as it would be if the decode arm only logged, whatever ignore_error
StepDecodeSkips(acc, s, i, ignore_error) ==
    LET ev1 == Append(acc.ev, Ev("identify", i))
    IN  IF s.ident
        THEN LET ev2 == Append(ev1, Ev("decode", i))
             IN  IF s.dec
                 THEN [err |-> <<>>, v |-> Append(acc.v, s.payload), ev |-> ev2]
                 ELSE [err |-> <<>>, v |-> acc.v,
                       ev |-> Append(ev2, Ev("eprintln", i))]
        ELSE IF ~ignore_error
        THEN [err |-> <<LabeledError("input contains incorrect data",
                          "part of data can not be identified")>>,
              v |-> acc.v, ev |-> ev1]
        ELSE [err |-> <<>>, v |-> acc.v, ev |-> Append(ev1, Ev("eprintln", i))]

\* one iteration of `for s in decoder.identify(..)`; acc.err is <<>> while
\* the loop has not returned
Step(acc, s, i, ignore_error) ==
    LET ev1 == Append(acc.ev, Ev("identify", i))
    IN  IF s.ident
        THEN LET ev2 == Append(ev1, Ev("decode", i))
             IN  IF s.dec
                 THEN [err |-> <<>>, v |-> Append(acc.v, s.payload), ev |-> ev2]
                 ELSE IF ~ignore_error
                 THEN [err |-> <<LabeledError("input contains incorrect data",
                                   "identified data can not be decoded")>>,
                       v |-> acc.v, ev |-> ev2]
                 ELSE [err |-> <<>>, v |-> acc.v,
                       ev |-> Append(ev2, Ev("eprintln", i))]
        ELSE IF ~ignore_error
        THEN [err |-> <<LabeledError("input contains incorrect data",
                          "part of data can not be identified")>>,
              v |-> acc.v, ev |-> ev1]
        ELSE [err |-> <<>>, v |-> acc.v, ev |-> Append(ev1, Ev("eprintln", i))]

\* the loop over the finder's candidates, left by `return Err(..)`
RECURSIVE IdentifyLoop(_, _, _, _)
IdentifyLoop(cands, i, acc, ignore_error) ==
    IF i > Len(cands) \/ acc.err # <<>> THEN acc
    ELSE IdentifyLoop(cands, i + 1, Step(acc, cands[i], i, ignore_error), ignore_error)

\* the second loop: the payloads converted to strings, up to the first that
\* is not UTF-8 (`break`)
RECURSIVE StringBuf(_)
StringBuf(v) ==
    IF v = <<>> THEN <<>>
    ELSE IF FromUtf8Ok(Head(v)) THEN <<Head(v)>> \o StringBuf(Tail(v))
    ELSE <<>>

\* a join that ends every entry, the last one too, with the separator
RECURSIVE JoinTrailing(_)
JoinTrailing(string_buf) ==
    IF string_buf = <<>> THEN <<>>
    ELSE Head(string_buf) \o <<NEWLINE>> \o JoinTrailing(Tail(string_buf))

\* string_buf.join("\n")
RECURSIVE Join(_)
Join(string_buf) ==
    IF string_buf = <<>> THEN <<>>
    ELSE IF Len(string_buf) = 1 THEN Head(string_buf)
    ELSE Head(string_buf) \o <<NEWLINE>> \o Join(Tail(string_buf))

\* v.into_iter().flatten().collect()
RECURSIVE Flatten(_)
Flatten(v) == IF v = <<>> THEN <<>> ELSE Head(v) \o Flatten(Tail(v))

\* Classify as it would be if the Binary arm collected only what the second
\* loop had not consumed
ClassifyDropsPrefix(v) ==
    LET string_buf == StringBuf(v)
    IN  IF Len(string_buf) = Len(v)
        THEN StringValue(Join(string_buf))
        ELSE BinaryValue(Bytes(Flatten(SubSeq(v, Len(string_buf) + 1, Len(v)))))

\* Classify as it would be if an empty list were not text
ClassifyEmptyBinary(v) ==
    LET string_buf == StringBuf(v)
    IN  IF Len(string_buf) = Len(v) /\ v # <<>>
        THEN StringValue(Join(string_buf))
        ELSE BinaryValue(Bytes(Flatten(v)))

\* the value returned once every candidate has been processed
Classify(v) ==
    LET string_buf == StringBuf(v)
    IN  IF Len(string_buf) = Len(v)
        THEN StringValue(Join(string_buf))
        ELSE BinaryValue(Bytes(Flatten(v)))

\* the "from qr" arm of Qr::run
FromQrRun(input, ignore_error) ==
    IF ~AsBinaryOk(input) THEN Outcome(CantConvert, <<>>, <<>>)
    ELSE LET bytes == input.val
             load  == <<Ev("load_from_memory", 0)>>
         IN  IF bytes.img = <<>>
             THEN Outcome(LabeledError("Unable to open image", "Input is guessed as"),
                          <<>>, load)
             ELSE LET acc == IdentifyLoop(bytes.img[1].symbols, 1,
                                 [err |-> <<>>, v |-> <<>>, ev |-> load],
                                 ignore_error)
                  IN  IF acc.err # <<>>
                      THEN Outcome(acc.err[1], acc.v, acc.ev)
                      ELSE Outcome(Classify(acc.v), acc.v, acc.ev)

(***************************************************************************)
(* "to qr": the encode pipeline.                                           *)
(***************************************************************************)
\* Characters are one-letter strings, a name is a sequence of characters.
LowerLetters == <<"a", "b", "c", "d", "e", "f", "g", "h", "i", "j", "k", "l", "m",
                  "n", "o", "p", "q", "r", "s", "t", "u", "v", "w", "x", "y", "z">>

UpperLetters == <<"A", "B", "C", "D", "E", "F", "G", "H", "I", "J", "K", "L", "M",
                  "N", "O", "P", "Q", "R", "S", "T", "U", "V", "W", "X", "Y", "Z">>

ToUpperChar(c) ==
    IF \E k \in 1..Len(LowerLetters) : LowerLetters[k] = c
    THEN UpperLetters[CHOOSE k \in 1..Len(LowerLetters) : LowerLetters[k] = c]
    ELSE c

\* the name matched as given, without upper-casing
ToUppercaseIdentity(x) == x

\* str::to_uppercase, on the characters the model uses

ToUppercase(x) == [k \in 1..Len(x) |-> ToUpperChar(x[k])]

SQUARE == <<"S", "Q", "U", "A", "R", "E">>
CIRCLE == <<"C", "I", "R", "C", "L", "E">>
ROUNDEDSQUARE == <<"R", "O", "U", "N", "D", "E", "D", "S", "Q", "U", "A", "R", "E">>
VERTICAL == <<"V", "E", "R", "T", "I", "C", "A", "L">>
HORIZONTAL == <<"H", "O", "R", "I", "Z", "O", "N", "T", "A", "L">>
DIAMOND == <<"D", "I", "A", "M", "O", "N", "D">>

\* the match on the upper-cased shape name; shape_name is <<>> (flag unset)
\* or <<name>>; "Unknown" stands for the arm that returns the error
ResolveShape(shape_name) ==
    IF shape_name = <<>> THEN "Square"
    ELSE LET u == ToUppercase(shape_name[1])
         IN  IF u = SQUARE THEN "Square"
             ELSE IF u = CIRCLE THEN "Circle"
             ELSE IF u = ROUNDEDSQUARE THEN "RoundedSquare"
             ELSE IF u = VERTICAL THEN "Vertical"
             ELSE IF u = HORIZONTAL THEN "Horizontal"
             ELSE IF u = DIAMOND THEN "Diamond"
             ELSE "Unknown"

\* A usize is four 16-bit limbs, most significant first; a u32 is two.
\* u32::MAX as usize
U32_MAX == <<0, 0, 65535, 65535>>

LtUsize(a, b) ==
    \E k \in 1..4 : a[k] < b[k] /\ \A j \in 1..(k - 1) : a[j] = b[j]

\* `w as u32`: the low 32 bits
AsU32(w) == <<w[3], w[4]>>

\* ImageBuilder::default() with the shape set
NewBuilder(shape) == [shape |-> shape, fit_width |-> <<>>, fit_height |-> <<>>]

\* ImageBuilder::fit_width / fit_height: each sets its own target
FitWidth(builder, w) == [builder EXCEPT !.fit_width = <<w>>]

FitHeight(builder, h) == [builder EXCEPT !.fit_height = <<h>>]

\* the match on (width, height); each is <<>> or <<usize>>
ResolveSize(builder, width, height) ==
    IF width # <<>> /\ height # <<>>
          /\ LtUsize(width[1], U32_MAX) /\ LtUsize(height[1], U32_MAX)
    THEN [ok |-> TRUE,
          builder |-> FitWidth(FitWidth(builder, AsU32(width[1])), AsU32(height[1]))]
    ELSE IF width # <<>> /\ height = <<>> /\ LtUsize(width[1], U32_MAX)
    THEN [ok |-> TRUE, builder |-> FitWidth(builder, AsU32(width[1]))]
    ELSE IF width = <<>> /\ height # <<>> /\ LtUsize(height[1], U32_MAX)
    THEN [ok |-> TRUE, builder |-> FitHeight(builder, AsU32(height[1]))]
    ELSE IF width = <<>> /\ height = <<>>
    THEN [ok |-> TRUE, builder |-> FitWidth(builder, <<0, 600>>)]
    ELSE [ok |-> FALSE, builder |-> builder]

\* QRBuilder::new(input).build(): fails when the payload exceeds the capacity
BuildOk(input) == Len(input) <= QrCapacity

\* builder.to_pixmap(&image).encode_png(): the image shows the one symbol
\* generated from `input`, which the finder locates and the decoder reads back
RenderPng(input, builder) ==
    ImageBuffer(<<Candidate(TRUE, TRUE, input)>>, <<builder>>)

UnknownShape ==
    LabeledError("Unknown shape parameter",
        "should be one of Square, Circle, RoundedSquare, Vertical, Horizontal, Diamond")

GenerateFailed == LabeledError("failed to generate qr code", "")

TooLarge ==
    LabeledError("Invalid width/height: too large",
                 "width/height should be smaller than 4294967295")

PngFailed == LabeledError("failed to generate png", "")

\* ToQrRun as it would be if the width/height match came before the build
ToQrRunSizeFirst(input, shape_name, width, height, png_ok) ==
    IF ~AsBinaryOk(input) THEN Outcome(CantConvert, <<>>, <<>>)
    ELSE LET shape == ResolveShape(shape_name)
             size  == ResolveSize(NewBuilder(shape), width, height)
             ev1   == <<Ev("shape", 0)>>
             ev2   == Append(ev1, Ev("size", 0))
             ev3   == Append(ev2, Ev("build", 0))
             ev5   == ev3 \o <<Ev("to_pixmap", 0), Ev("encode_png", 0)>>
         IN  IF shape = "Unknown" THEN Outcome(UnknownShape, <<>>, ev1)
             ELSE IF ~size.ok THEN Outcome(TooLarge, <<>>, ev2)
             ELSE IF ~BuildOk(input.val.data) THEN Outcome(GenerateFailed, <<>>, ev3)
             ELSE IF png_ok
             THEN Outcome(BinaryValue(RenderPng(input.val.data, size.builder)),
                          <<>>, ev5)
             ELSE Outcome(PngFailed, <<>>, ev5)

\* the "to qr" arm of Qr::run; png_ok is the outcome of encode_png
ToQrRun(input, shape_name, width, height, png_ok) ==
    IF ~AsBinaryOk(input) THEN Outcome(CantConvert, <<>>, <<>>)
    ELSE LET shape == ResolveShape(shape_name)
             size  == ResolveSize(NewBuilder(shape), width, height)
             ev1   == <<Ev("shape", 0)>>
             ev2   == Append(ev1, Ev("build", 0))
             ev3   == Append(ev2, Ev("size", 0))
             ev5   == ev3 \o <<Ev("to_pixmap", 0), Ev("encode_png", 0)>>
         IN  IF shape = "Unknown" THEN Outcome(UnknownShape, <<>>, ev1)
             ELSE IF ~BuildOk(input.val.data) THEN Outcome(GenerateFailed, <<>>, ev2)
             ELSE IF ~size.ok THEN Outcome(TooLarge, <<>>, ev3)
             ELSE IF png_ok
             THEN Outcome(BinaryValue(RenderPng(input.val.data, size.builder)),
                          <<>>, ev5)
             ELSE Outcome(PngFailed, <<>>, ev5)

\* the `_` arm of Qr::run
WrongName ==
    LabeledError("Plugin call with wrong name signature", "Plugin command does not exist")

(***************************************************************************)
(* The inputs the invocations are drawn from.                              *)
(***************************************************************************)
SeqsUpTo(S, n) == UNION {[1..k -> S] : k \in 0..n}

\* "", "A", "hi", U+00E9, U+20AC, and three byte strings that are not UTF-8:
\* a lead byte alone, a continuation byte alone, and 0xFF
Payloads ==
    {<<>>, <<65>>, <<104, 105>>, <<195, 169>>, <<226, 130, 172>>,
     <<195>>, <<169>>, <<255>>}

Candidates ==
    {Candidate(FALSE, FALSE, <<>>), Candidate(TRUE, FALSE, <<>>)}
        \cup {Candidate(TRUE, TRUE, p) : p \in Payloads}

\* loadable images with up to MaxCands candidates, a buffer that is no image,
\* and a value that is not binary
FromQrInputs ==
    {BinaryValue(ImageBuffer(c, <<>>)) : c \in SeqsUpTo(Candidates, MaxCands)}
        \cup {BinaryValue(Bytes(<<65>>)), IntValue}

ToQrPayloads == Payloads \cup {[k \in 1..n |-> 65] : n \in 0..(QrCapacity + 1)}

ToQrInputs ==
    {BinaryValue(Bytes(p)) : p \in ToQrPayloads}
        \cup {StringValue(p) : p \in {q \in ToQrPayloads : FromUtf8Ok(q)}}
        \cup {IntValue}

ToLowerChar(c) ==
    IF \E k \in 1..Len(UpperLetters) : UpperLetters[k] = c
    THEN LowerLetters[CHOOSE k \in 1..Len(UpperLetters) : UpperLetters[k] = c]
    ELSE c

Lowered(x) == [k \in 1..Len(x) |-> ToLowerChar(x[k])]

Capitalized(x) == [k \in 1..Len(x) |-> IF k = 1 THEN x[k] ELSE ToLowerChar(x[k])]

Alternating(x) == [k \in 1..Len(x) |-> IF k % 2 = 0 THEN x[k] ELSE ToLowerChar(x[k])]

CanonicalNames == {SQUARE, CIRCLE, ROUNDEDSQUARE, VERTICAL, HORIZONTAL, DIAMOND}

\* every valid name in four spellings, "RoundedSquare" as documented, and
\* names that are none of the six: another word, a prefix, a name with a
\* character more (after, before), the empty name, part of a name
ShapeNames ==
    UNION {{x, Lowered(x), Capitalized(x), Alternating(x)} : x \in CanonicalNames}
        \cup {<<"R", "o", "u", "n", "d", "e", "d", "S", "q", "u", "a", "r", "e">>,
              <<"h", "e", "x", "a", "g", "o", "n">>,
              <<"s", "q", "u", "a", "r">>,
              <<"s", "q", "u", "a", "r", "e", "s">>,
              <<" ", "s", "q", "u", "a", "r", "e">>,
              <<>>,
              <<"r", "o", "u", "n", "d", "e", "d">>,
              <<"r", "o", "u", "n", "d", "e", "d", "_", "s", "q", "u", "a", "r", "e">>}

ShapeFlags == {<<>>} \cup {<<x>> : x \in ShapeNames}

\* 0, 1, 300, 2^32-2, 2^32-1, 2^32 and usize::MAX
Sizes ==
    {<<0, 0, 0, 0>>, <<0, 0, 0, 1>>, <<0, 0, 0, 300>>, <<0, 0, 65535, 65534>>,
     <<0, 0, 65535, 65535>>, <<0, 1, 0, 0>>, <<65535, 65535, 65535, 65535>>}

SizeFlags == {<<>>} \cup {<<x>> : x \in Sizes}

CommandNames == {"from qr", "to qr", "qr", "from  qr", "to_qr"}

(***************************************************************************)
(* The plugin as a state machine.                                          *)
(***************************************************************************)
Call(name, input, ignore_error, shape, width, height, png_ok) ==
    [name |-> name, input |-> input, ignore_error |-> ignore_error,
     shape |-> shape, width |-> width, height |-> height, png_ok |-> png_ok]

NoCall == Call("", Nothing, FALSE, <<>>, <<>>, <<>>, TRUE)

\* serve_plugin(&mut Qr::new(), ..): the plugin waits for a call
Init ==
    /\ call = NoCall
    /\ result = Nothing
    /\ agg = <<>>
    /\ events = <<>>

Returns(out) ==
    /\ result' = out.result
    /\ agg' = out.agg
    /\ events' = out.events

\* run("from qr", ..) on an input of the caller
FromQr ==
    /\ call = NoCall
    /\ \E input \in FromQrInputs, ignore_error \in BOOLEAN :
          /\ call' = Call("from qr", input, ignore_error, <<>>, <<>>, <<>>, TRUE)
          /\ Returns(FromQrRun(input, ignore_error))

\* `.. | to qr | from qr`: run("from qr", ..) on the image "to qr" returned
FromQrPiped ==
    /\ call.name = "to qr"
    /\ result.kind = "Binary"
    /\ \E ignore_error \in BOOLEAN :
          /\ call' = Call("from qr", result, ignore_error, <<>>, <<>>, <<>>, TRUE)
          /\ Returns(FromQrRun(result, ignore_error))

\* run("to qr", ..)
ToQr ==
    /\ call = NoCall
    /\ \E input \in ToQrInputs, shape \in ShapeFlags,
          width \in SizeFlags, height \in SizeFlags, png_ok \in BOOLEAN :
          /\ call' = Call("to qr", input, FALSE, shape, width, height, png_ok)
          /\ Returns(ToQrRun(input, shape, width, height, png_ok))

\* run(name, ..) with a name that is neither command
UnknownCommand ==
    /\ call = NoCall
    /\ \E name \in CommandNames \ {"from qr", "to qr"},
          input \in {BinaryValue(Bytes(<<65>>)), IntValue} :
          /\ call' = Call(name, input, FALSE, <<>>, <<>>, <<>>, TRUE)
          /\ Returns(Outcome(WrongName, <<>>, <<>>))

\* the response is handed to the host and nothing of the call is kept
Respond ==
    /\ call # NoCall
    /\ call' = NoCall
    /\ result' = Nothing
    /\ agg' = <<>>
    /\ events' = <<>>

Next == FromQr \/ FromQrPiped \/ ToQr \/ UnknownCommand \/ Respond

Spec == Init /\ [][Next]_vars

(***************************************************************************)
(* Properties.  What the claims speak of is defined here from the inputs   *)
(* of the call, not through the operators of the pipelines.                *)
(***************************************************************************)
IsFromQr == call.name = "from qr"

IsToQr == call.name = "to qr"

\* the call got past as_binary and load_from_memory
Loaded == IsFromQr /\ AsBinaryOk(call.input) /\ call.input.val.img # <<>>

Cands == call.input.val.img[1].symbols

Succeeds(s) == s.ident /\ s.dec

\* the payloads of the candidates that identify and decode, in finder order
RECURSIVE Decoded(_)
Decoded(cands) ==
    IF cands = <<>> THEN <<>>
    ELSE (IF Succeeds(Head(cands)) THEN <<Head(cands).payload>> ELSE <<>>)
             \o Decoded(Tail(cands))

\* index of the first candidate that fails, 0 when none does
FirstFailure(cands) ==
    IF \E k \in 1..Len(cands) : ~Succeeds(cands[k])
    THEN CHOOSE k \in 1..Len(cands) :
            ~Succeeds(cands[k]) /\ \A j \in 1..(k - 1) : Succeeds(cands[j])
    ELSE 0

RECURSIVE SumLen(_)
SumLen(P) == IF P = <<>> THEN 0 ELSE Len(Head(P)) + SumLen(Tail(P))

\* t is P[1] .. P[n] laid end to end, `gap` separator bytes between entries
Start(P, k, gap) == SumLen(SubSeq(P, 1, k - 1)) + gap * (k - 1)

IsConcat(t, P) ==
    /\ Len(t) = SumLen(P)
    /\ \A k \in 1..Len(P) :
          SubSeq(t, Start(P, k, 0) + 1, Start(P, k, 0) + Len(P[k])) = P[k]

IsNewlineJoin(t, P) ==
    IF P = <<>> THEN t = <<>>
    ELSE /\ Len(t) = SumLen(P) + Len(P) - 1
         /\ \A k \in 1..Len(P) :
               SubSeq(t, Start(P, k, 1) + 1, Start(P, k, 1) + Len(P[k])) = P[k]
         /\ \A k \in 2..Len(P) : t[Start(P, k, 1)] = 10

\* C1: a successful "from qr" returns Text iff every decoded payload is
\* valid UTF-8 by itself, and then the payloads joined in finder order with
\* one newline between neighbours; otherwise it returns Binary, the
\* concatenation of all the payloads in finder order with no delimiter.
C1_TextIffAllUtf8 ==
    (IsFromQr /\ result.kind \in {"String", "Binary"}) =>
        LET P == Decoded(Cands)
        IN  /\ (result.kind = "String") <=> (\A k \in 1..Len(P) : FromUtf8Ok(P[k]))
            /\ result.val.img = <<>>
            /\ result.kind = "String" => IsNewlineJoin(result.val.data, P)
            /\ result.kind = "Binary" => IsConcat(result.val.data, P)

\* three payloads, the middle one not UTF-8, returned as Binary
C1_Witness ==
    /\ IsFromQr
    /\ result.kind = "Binary"
    /\ Loaded
    /\ Len(Cands) = 3
    /\ \A k \in 1..3 : Succeeds(Cands[k]) /\ Cands[k].payload # <<>>
    /\ FromUtf8Ok(Cands[1].payload)
    /\ ~FromUtf8Ok(Cands[2].payload)
    /\ FromUtf8Ok(Cands[3].payload)

\* C2: without ignore-error, a candidate that fails identification or
\* decoding makes the call return the error "input contains incorrect
\* data" for the first such candidate: no value is returned and no later
\* candidate is processed.
C2_FailFast ==
    (Loaded /\ ~call.ignore_error /\ FirstFailure(Cands) # 0) =>
        LET k == FirstFailure(Cands)
        IN  /\ result.kind = "Error"
            /\ result.label = "input contains incorrect data"
            /\ result.msg = (IF Cands[k].ident
                             THEN "identified data can not be decoded"
                             ELSE "part of data can not be identified")
            /\ result.val = Bytes(<<>>)
            /\ \A j \in 1..Len(events) : events[j].idx <= k
            /\ \E j \in 1..Len(events) : events[j] = Ev("identify", k)

\* a payload decoded, then a failure, then a candidate that would decode
C2_Witness ==
    /\ Loaded
    /\ ~call.ignore_error
    /\ Len(Cands) = 3
    /\ Succeeds(Cands[1]) /\ Cands[1].payload # <<>>
    /\ Cands[2].ident /\ ~Cands[2].dec
    /\ Succeeds(Cands[3])
    /\ result.kind = "Error"

\* C3: with ignore-error, a loaded image never gives an identification or
\* decode error: every candidate is processed, in finder order, and the
\* aggregated payloads are those of the candidates that identified and
\* decoded, in that order.
C3_IgnoreErrorSkips ==
    (Loaded /\ call.ignore_error) =>
        /\ result.kind \in {"String", "Binary"}
        /\ agg = Decoded(Cands)
        /\ \A k \in 1..Len(Cands) :
              /\ \E j \in 1..Len(events) : events[j] = Ev("identify", k)
              /\ Cands[k].ident =>
                    \E j \in 1..Len(events) : events[j] = Ev("decode", k)
        /\ \A i, j \in 1..Len(events) : i < j => events[i].idx <= events[j].idx

\* a payload, a candidate that is not identified, another payload
C3_Witness ==
    /\ Loaded
    /\ call.ignore_error
    /\ Len(Cands) = 3
    /\ Succeeds(Cands[1]) /\ Cands[1].payload # <<>>
    /\ ~Cands[2].ident
    /\ Succeeds(Cands[3]) /\ Cands[3].payload # <<>>
    /\ agg = <<Cands[1].payload, Cands[3].payload>>

\* C8: a loadable image with no decoded payload (no candidate, or
\* ignore-error and only failing candidates) gives Text("").
C8_EmptyText ==
    (Loaded /\ Decoded(Cands) = <<>> /\ (Cands = <<>> \/ call.ignore_error)) =>
        result = StringValue(<<>>)

\* ignore-error over one unidentified and one undecodable candidate
C8_Witness ==
    /\ Loaded
    /\ call.ignore_error
    /\ Len(Cands) >= 2
    /\ ~Cands[1].ident
    /\ Cands[2].ident /\ ~Cands[2].dec
    /\ Decoded(Cands) = <<>>
    /\ result.kind = "String"

\* "to qr" got past as_binary
Encoding == IsToQr /\ AsBinaryOk(call.input)

ShapeTable ==
    {<<SQUARE, "Square">>, <<CIRCLE, "Circle">>, <<ROUNDEDSQUARE, "RoundedSquare">>,
     <<VERTICAL, "Vertical">>, <<HORIZONTAL, "Horizontal">>, <<DIAMOND, "Diamond">>}

\* x spells the upper-case name `canon` in some letter case
SpellsName(x, canon) ==
    /\ Len(x) = Len(canon)
    /\ \A k \in 1..Len(canon) : x[k] = canon[k] \/ x[k] = ToLowerChar(canon[k])

\* the shapes the flag names: Square when unset, none for an unknown name
NamedShapes(flag) ==
    IF flag = <<>> THEN {"Square"}
    ELSE {t[2] : t \in {u \in ShapeTable : SpellsName(flag[1], u[1])}}

Rendered == result.val.img[1].builder[1]

Zero == <<0, 0, 0, 0>>

Provided == {call.width[k] : k \in DOMAIN call.width}
                \cup {call.height[k] : k \in DOMAIN call.height}

\* the size check of the code rejects the call
SizeRejected == \E x \in Provided : ~LtUsize(x, U32_MAX)

PayloadTooLarge == Len(call.input.val.data) > QrCapacity

Steps ==
    <<Ev("shape", 0), Ev("build", 0), Ev("size", 0), Ev("to_pixmap", 0),
      Ev("encode_png", 0)>>

\* C4: both width and height given -> the renderer is constrained to width
\* w and height h; only width -> width w; only height -> height h; neither
\* -> width 600 (for widths and heights in 1..4294967294).
C4_FitRule ==
    (Encoding /\ result.kind = "Binary"
        /\ \A x \in Provided : LtUsize(Zero, x) /\ LtUsize(x, U32_MAX)) =>
        /\ Rendered.fit_width =
              (IF call.width # <<>> THEN <<<<call.width[1][3], call.width[1][4]>>>>
               ELSE IF call.height = <<>> THEN <<<<0, 600>>>>
               ELSE <<>>)
        /\ Rendered.fit_height =
              (IF call.height # <<>> THEN <<<<call.height[1][3], call.height[1][4]>>>>
               ELSE <<>>)

\* C5: with a valid shape and a payload the generator accepts, the call
\* returns "Invalid width/height: too large" iff some provided width or
\* height lies outside 1..4294967294.
C5_SizeRange ==
    (Encoding /\ NamedShapes(call.shape) # {} /\ ~PayloadTooLarge) =>
        ((result = TooLarge) <=>
            (\E x \in Provided : ~(LtUsize(Zero, x) /\ LtUsize(x, U32_MAX))))

\* C6: an unset shape is Square; a name that spells one of the six shapes
\* in any letter case is that shape; any other string gives the error
\* "Unknown shape parameter" and no image.
C6_ShapeResolution ==
    Encoding =>
        IF NamedShapes(call.shape) = {}
        THEN result = UnknownShape /\ events = <<Ev("shape", 0)>>
        ELSE /\ result # UnknownShape
             /\ result.kind = "Binary" => NamedShapes(call.shape) = {Rendered.shape}

\* "rOuNdEdSqUaRe" rendered as RoundedSquare
C6_Witness ==
    /\ Encoding
    /\ call.shape = <<Alternating(ROUNDEDSQUARE)>>
    /\ result.kind = "Binary"
    /\ Rendered.shape = "RoundedSquare"

C10_StepOrder ==
    Encoding =>
        LET shapeBad == NamedShapes(call.shape) = {}
            n == Len(events)
        IN  /\ n <= Len(Steps) /\ events = SubSeq(Steps, 1, n)
            /\ shapeBad => (result = UnknownShape /\ n = 1)
            /\ (~shapeBad /\ PayloadTooLarge) => (result = GenerateFailed /\ n = 2)
            /\ (~shapeBad /\ ~PayloadTooLarge /\ SizeRejected)
                  => (result = TooLarge /\ n = 3)
            /\ (~shapeBad /\ ~PayloadTooLarge /\ ~SizeRejected)
                  => /\ n = 5
                     /\ result.kind = (IF call.png_ok THEN "Binary" ELSE "Error")
                     /\ ~call.png_ok => result = PngFailed

\* a payload beyond the capacity together with a width that is too large
C10_Witness ==
    /\ Encoding
    /\ NamedShapes(call.shape) # {}
    /\ PayloadTooLarge
    /\ SizeRejected
    /\ result = GenerateFailed

====
